---- MODULE Spec2Model ----
(***************************************************************************)
(* State-machine model of src/graphics/renderer.cpp (Lumix::RendererImpl   *)
(* and the free functions setFixedCachedUniform, bindGeometry and          *)
(* renderGeometry).                                                        *)
(*                                                                         *)
(* The renderer is single threaded: every public operation is one atomic   *)
(* action.  The body of an operation is an operator on a record holding    *)
(* the renderer fields, the shaders' selected programs and the driver (GL) *)
(* state, so that operations which call each other (renderModel ->         *)
(* bindGeometry, render -> cleanup, ...) compose exactly as in the code.   *)
(* `events` is the call trace of the most recent operation, in program     *)
(* order: its own entry, the entries of the renderer functions it calls,   *)
(* and every driver / collaborator call they issue.                        *)
(***************************************************************************)
EXTENDS Integers, Sequences, FiniteSets, TLC

(***************************************************************************)
(* Bounds of the model                                                     *)
(***************************************************************************)
NumShaders == 2
NumCombinations == 1
NumPasses == 2
NumMeshes == 3
NumModels == 2
MaxLoc == 0
MaxValue == 0
MaxMatrix == 1
MaxPipelineLen == 1
NumDevices == 2
NumNames == 2
MaxCoord == 1

(***************************************************************************)
(* Program constants                                                       *)
(***************************************************************************)
\* crc32("MAIN"): pass hashes are opaque 32-bit names, numbered from 0 here
MAIN_HASH == 0
\* 0xffffFFFF as a GLuint, i.e. (GLuint)-1; no program ever has this id
INVALID_PROGRAM_ID == -1
\* number of texture units reset by cleanup()
TEXTURE_UNIT_COUNT == 16
\* a NULL pointer / GL object name 0
NULL == 0
\* the value of a pointer field that the constructor leaves unassigned
\* (m_render_device, m_debug_shader): indeterminate, every read of it may
\* yield NULL or the address of something that is not the expected object
INDETERMINATE == -1

\* Shader::FixedCachedUniforms enumerators used by this file
WORLD_MATRIX == 0
VIEW_MATRIX == 1
PROJECTION_MATRIX == 2

Shaders == 1..NumShaders
Combinations == 0..(NumCombinations - 1)
PassHashes == 0..(NumPasses - 1)
Meshes == 1..NumMeshes
Models == 1..NumModels
Geometries == Models
Locs == (-1)..MaxLoc
Values == 0..MaxValue
Matrices == 0..MaxMatrix
FixedUniforms == {WORLD_MATRIX, VIEW_MATRIX, PROJECTION_MATRIX}
TextureUnits == 0..(TEXTURE_UNIT_COUNT - 1)
Devices == 1..NumDevices
Names == 1..NumNames

(***************************************************************************)
(* Collaborators whose code lives outside renderer.cpp                     *)
(***************************************************************************)
\* Shader: the compiled program selected by a (combination, pass) pair;
\* program names are distinct non-zero GL object names
ProgramOf(shader, combination, pass_hash) ==
    1 + ((shader - 1) * NumCombinations + combination) * NumPasses + pass_hash

Programs == {ProgramOf(s, c, p) : s \in Shaders, c \in Combinations, p \in PassHashes}

\* Shader::getFixedCachedUniformLocation: each shader lacks one fixed uniform
getFixedCachedUniformLocation(shader, name) ==
    IF (shader + name) % 3 = 0 THEN -1 ELSE name

\* Model::getMeshCount / Model::getMesh: model k owns the meshes m with
\* m % NumModels = k % NumModels, in increasing order
ModelMeshSet(model) == {m \in Meshes : m % NumModels = model % NumModels}

RECURSIVE SortedSeq(_)
SortedSeq(S) ==
    IF S = {} THEN <<>>
    ELSE LET lo == CHOOSE x \in S : \A y \in S : x <= y
         IN <<lo>> \o SortedSeq(S \ {lo})

getMeshes(model) == SortedSeq(ModelMeshSet(model))

\* Model::getGeometry: one geometry (vertex + index buffer pair) per model
getGeometry(model) == model

\* Mesh::getMaterial and Material::getShader
getMaterial(mesh) == mesh
getShader(material) == ((material - 1) % NumShaders) + 1
MeshShader(mesh) == getShader(getMaterial(mesh))

\* Material: the shader combination it applies, its texture count and the
\* texture it binds to unit i
MaterialCombination(material) == material % NumCombinations
MaterialTextureCount(material) == 1 + (material % 2)
MaterialTexture(material, i) == i + 1

\* Mesh::getAttributeArrayOffset, getIndicesOffset, getIndexCount
getAttributeArrayOffset(mesh) == 10 * mesh
getIndicesOffset(mesh) == 100 * mesh
getIndexCount(mesh) == 3 * mesh

(***************************************************************************)
(* State                                                                   *)
(***************************************************************************)
VARIABLES
    m_last_program_id,          \* RendererImpl: cached current program id
    m_last_bind_geometry,       \* RendererImpl: last-bound geometry memo
    m_last_bind_geometry_mesh,  \* RendererImpl: last-bound mesh memo
    m_current_pass_hash,        \* RendererImpl: active render pass
    m_view_matrix,              \* RendererImpl: current view matrix
    m_projection_matrix,        \* RendererImpl: current projection matrix
    shader_program,             \* Shader::getProgramId() of every shader
    gl_program,                 \* driver: argument of the last glUseProgram
    gl_array_buffer,            \* driver: GL_ARRAY_BUFFER binding
    gl_element_buffer,          \* driver: GL_ELEMENT_ARRAY_BUFFER binding
    gl_layouts,                 \* driver: per mesh, layout begins not yet ended
    gl_layout_fault,            \* driver: a layout begin/end was unmatched
    gl_textures,                \* driver: GL_TEXTURE_2D binding of every unit
    gl_active_texture,          \* driver: active texture unit
    m_render_device,            \* RendererImpl: the render device, not owned
    m_is_editor_wireframe,      \* RendererImpl: editor wireframe flag
    m_debug_shader,             \* RendererImpl: the debug shader
    m_attribute_names,          \* RendererImpl: attribute-name registry
    fault,                      \* how the process died, "none" while it runs
    events,                     \* call trace of the most recent operation
    draws,                      \* per draw of the most recent operation, the
                                \* memos and driver bindings it was issued with
    program_bound,              \* history: the renderer has bound a program
    uniform_run,                \* history: current run of setUniform calls
    geometry_run,               \* history: current run of same-mesh binds
    cleanup_run,                \* history: consecutive cleanup() calls (<= 2)
    first_seen,                 \* history: per name, how many distinct names
                                \* had been looked up before it, -1 if never
    create_result,              \* history: what the last create() returned
                                \* (1 true, 0 false), -1 before any create()
    lookat                      \* the arguments of a getLookAtMatrix call and
                                \* the matrix it is given, written once done

vars == <<m_last_program_id, m_last_bind_geometry, m_last_bind_geometry_mesh,
          m_current_pass_hash, m_view_matrix, m_projection_matrix,
          shader_program, gl_program, gl_array_buffer,
          gl_element_buffer, gl_layouts, gl_layout_fault, gl_textures,
          gl_active_texture, m_render_device, m_is_editor_wireframe,
          m_debug_shader, m_attribute_names, fault, events, draws,
          program_bound, uniform_run, geometry_run, cleanup_run, first_seen,
          create_result, lookat>>

\* the fields of RendererImpl that belong to the binding caches
caches == <<m_last_program_id, m_last_bind_geometry, m_last_bind_geometry_mesh>>

\* every field of RendererImpl
rendererFields == <<m_last_program_id, m_last_bind_geometry,
                    m_last_bind_geometry_mesh, m_current_pass_hash,
                    m_view_matrix, m_projection_matrix, m_render_device,
                    m_is_editor_wireframe, m_debug_shader, m_attribute_names>>

\* the observable driver state
driverState == <<gl_program, gl_array_buffer, gl_element_buffer, gl_layouts,
                 gl_textures, gl_active_texture>>

\* the current state as one record, threaded through the operation bodies
Cur ==
    [m_last_program_id |-> m_last_program_id,
     m_last_bind_geometry |-> m_last_bind_geometry,
     m_last_bind_geometry_mesh |-> m_last_bind_geometry_mesh,
     m_current_pass_hash |-> m_current_pass_hash,
     m_view_matrix |-> m_view_matrix,
     m_projection_matrix |-> m_projection_matrix,
     shader_program |-> shader_program,
     gl_program |-> gl_program,
     gl_array_buffer |-> gl_array_buffer,
     gl_element_buffer |-> gl_element_buffer,
     gl_layouts |-> gl_layouts,
     gl_layout_fault |-> gl_layout_fault,
     gl_textures |-> gl_textures,
     gl_active_texture |-> gl_active_texture,
     m_render_device |-> m_render_device,
     m_is_editor_wireframe |-> m_is_editor_wireframe,
     m_debug_shader |-> m_debug_shader,
     m_attribute_names |-> m_attribute_names,
     fault |-> fault,
     events |-> <<>>,
     draws |-> <<>>]

\* the state after an operation body has produced the record r
Becomes(r) ==
    /\ m_last_program_id' = r.m_last_program_id
    /\ m_last_bind_geometry' = r.m_last_bind_geometry
    /\ m_last_bind_geometry_mesh' = r.m_last_bind_geometry_mesh
    /\ m_current_pass_hash' = r.m_current_pass_hash
    /\ m_view_matrix' = r.m_view_matrix
    /\ m_projection_matrix' = r.m_projection_matrix
    /\ shader_program' = r.shader_program
    /\ gl_program' = r.gl_program
    /\ gl_array_buffer' = r.gl_array_buffer
    /\ gl_element_buffer' = r.gl_element_buffer
    /\ gl_layouts' = r.gl_layouts
    /\ gl_layout_fault' = r.gl_layout_fault
    /\ gl_textures' = r.gl_textures
    /\ gl_active_texture' = r.gl_active_texture
    /\ m_render_device' = r.m_render_device
    /\ m_is_editor_wireframe' = r.m_is_editor_wireframe
    /\ m_debug_shader' = r.m_debug_shader
    /\ m_attribute_names' = r.m_attribute_names
    /\ fault' = r.fault
    /\ events' = r.events
    /\ draws' = r.draws

Emit(r, e) == [r EXCEPT !.events = Append(@, e)]

\* Always TRUE.  A loop body tests it on the record it has produced before it
\* goes round again, so that the record is computed at that point and the
\* evaluation depth does not grow with the length of the call trace.
Evaluated(r) == r.events = r.events

(***************************************************************************)
(* The driver                                                              *)
(***************************************************************************)
glUseProgram(r, id) ==
    Emit([r EXCEPT !.gl_program = id], <<"glUseProgram", id>>)

\* glUniform1i, glUniform1f, glUniform3f, glUniform4f, glUniformMatrix4fv:
\* a uniform write goes to the program that is bound when it is issued
glUniform(r, loc, value) ==
    Emit(r, <<"glUniform", loc, value, r.gl_program>>)

glBindArrayBuffer(r, buffer) ==
    Emit([r EXCEPT !.gl_array_buffer = buffer], <<"glBindBuffer(GL_ARRAY_BUFFER)", buffer>>)

glBindElementBuffer(r, buffer) ==
    Emit([r EXCEPT !.gl_element_buffer = buffer],
         <<"glBindBuffer(GL_ELEMENT_ARRAY_BUFFER)", buffer>>)

glActiveTexture(r, unit) ==
    Emit([r EXCEPT !.gl_active_texture = unit], <<"glActiveTexture", unit>>)

glBindTexture(r, texture) ==
    Emit([r EXCEPT !.gl_textures[r.gl_active_texture] = texture],
         <<"glBindTexture", r.gl_active_texture, texture>>)

\* glEnable(GL_DEPTH_TEST) and glDisable(GL_BLEND): the capability flags are
\* not read back by the renderer, the calls are visible in the call trace
glEnableDepthTest(r) == Emit(r, <<"glEnable(GL_DEPTH_TEST)">>)

glDisableBlend(r) == Emit(r, <<"glDisable(GL_BLEND)">>)

\* what an indexed draw finds: the memos of the renderer, the buffers bound
\* and the vertex layouts enabled at the driver
DrawState(r, vertex_count, indices_offset) ==
    [vertex_count |-> vertex_count,
     indices_offset |-> indices_offset,
     m_last_bind_geometry |-> r.m_last_bind_geometry,
     m_last_bind_geometry_mesh |-> r.m_last_bind_geometry_mesh,
     gl_array_buffer |-> r.gl_array_buffer,
     gl_element_buffer |-> r.gl_element_buffer,
     gl_layouts |-> r.gl_layouts]

glDrawElements(r, vertex_count, indices_offset) ==
    Emit([r EXCEPT !.draws = Append(@, DrawState(r, vertex_count, indices_offset))],
         <<"glDrawElements", vertex_count, indices_offset>>)

(***************************************************************************)
(* Collaborators acting on the driver                                      *)
(***************************************************************************)
\* Geometry::bindBuffers
bindBuffers(r, geometry) ==
    Emit([r EXCEPT !.gl_array_buffer = geometry, !.gl_element_buffer = geometry],
         <<"bindBuffers", geometry>>)

\* VertexDef::begin(shader, offset): enables the mesh's attribute arrays
VertexDefBegin(r, mesh, shader, offset) ==
    Emit([r EXCEPT !.gl_layouts[mesh] = @ + 1,
                   !.gl_layout_fault = @ \/ (\E m \in Meshes : r.gl_layouts[m] > 0)],
         <<"VertexDef::begin", mesh, shader, offset>>)

\* VertexDef::end(shader): disables the mesh's attribute arrays
VertexDefEnd(r, mesh, shader) ==
    Emit([r EXCEPT !.gl_layouts[mesh] = @ - 1,
                   !.gl_layout_fault = @ \/ (r.gl_layouts[mesh] # 1)],
         <<"VertexDef::end", mesh, shader>>)

\* Shader::setCurrentCombination
setCurrentCombination(r, shader, combination, pass_hash) ==
    [r EXCEPT !.shader_program[shader] = ProgramOf(shader, combination, pass_hash)]

\* Shader::getProgramId
getProgramId(r, shader) == r.shader_program[shader]

\* Texture::apply(unit) of the material's i-th texture
TextureApply(r, unit, texture) ==
    glBindTexture(glActiveTexture(r, unit), texture)

(***************************************************************************)
(* RendererImpl and the free functions of renderer.cpp                     *)
(***************************************************************************)
\* UseProgramIfStale without the comparison against the cached id
UseProgramAlways(r, shader) ==
    [glUseProgram(r, getProgramId(r, shader))
        EXCEPT !.m_last_program_id = getProgramId(r, shader)]

\* the bind-if-stale step shared by all uniform setters
UseProgramIfStale(r, shader) ==
    IF r.m_last_program_id # getProgramId(r, shader)
    THEN [glUseProgram(r, getProgramId(r, shader))
             EXCEPT !.m_last_program_id = getProgramId(r, shader)]
    ELSE r

\* setUniform binding the program before it looks at the location
setUniform_bindBeforeLookup(r, shader, loc, value) ==
    LET r0 == UseProgramIfStale(
                  Emit(r, <<"setUniform", shader, getProgramId(r, shader), loc>>), shader)
    IN IF loc >= 0 THEN glUniform(r0, loc, value) ELSE r0

\* RendererImpl::setUniform: the five overloads (int, Vec3, float, Matrix,
\* Matrix array) differ only in the type of the value and in the glUniform*
\* entry point that writes it; loc is what
\* shader.getUniformLocation(name, name_hash) returned
setUniform(r, shader, loc, value) ==
    LET r0 == Emit(r, <<"setUniform", shader, getProgramId(r, shader), loc>>)
    IN IF loc >= 0
       THEN glUniform(UseProgramIfStale(r0, shader), loc, value)
       ELSE r0

\* setFixedCachedUniform: the five overloads (Vec3, Vec4, float, Matrix,
\* Matrix array) differ only in the type of the value and in the glUniform*
\* entry point that writes it
setFixedCachedUniform(r, shader, name, value) ==
    LET loc == getFixedCachedUniformLocation(shader, name)
        r0 == Emit(r, <<"setFixedCachedUniform", shader, getProgramId(r, shader), loc>>)
    IN IF loc >= 0
       THEN glUniform(UseProgramIfStale(r0, shader), loc, value)
       ELSE r0

\* applyShader selecting the combination for the default pass
applyShader_defaultPass(r, shader, combination) ==
    LET r0 == Emit(r, <<"applyShader", shader, combination>>)
        r1 == Emit(setCurrentCombination(r0, shader, combination, MAIN_HASH),
                   <<"setCurrentCombination", shader, combination, r0.m_current_pass_hash>>)
        id == getProgramId(r1, shader)
        r2 == [r1 EXCEPT !.m_last_program_id = id]
        r3 == glUseProgram(r2, id)
        r4 == setFixedCachedUniform(r3, shader, VIEW_MATRIX, r3.m_view_matrix)
    IN setFixedCachedUniform(r4, shader, PROJECTION_MATRIX, r4.m_projection_matrix)

\* RendererImpl::applyShader
applyShader(r, shader, combination) ==
    LET r0 == Emit(r, <<"applyShader", shader, combination>>)
        r1 == Emit(setCurrentCombination(r0, shader, combination, r0.m_current_pass_hash),
                   <<"setCurrentCombination", shader, combination, r0.m_current_pass_hash>>)
        id == getProgramId(r1, shader)
        r2 == [r1 EXCEPT !.m_last_program_id = id]
        r3 == glUseProgram(r2, id)
        r4 == setFixedCachedUniform(r3, shader, VIEW_MATRIX, r3.m_view_matrix)
    IN setFixedCachedUniform(r4, shader, PROJECTION_MATRIX, r4.m_projection_matrix)

\* the loop of cleanup() over the texture units i..TEXTURE_UNIT_COUNT-1
RECURSIVE UnbindTextures(_, _)
UnbindTextures(r, i) ==
    IF i < TEXTURE_UNIT_COUNT
    THEN LET r1 == glBindTexture(glActiveTexture(r, i), 0)
         IN IF Evaluated(r1) THEN UnbindTextures(r1, i + 1) ELSE r1
    ELSE r

\* cleanup without the teardown of the last-bound mesh's layout
cleanup_noTeardown(r) ==
    LET r0 == Emit(r, <<"cleanup">>)
        r2 == [r0 EXCEPT !.m_last_bind_geometry = NULL,
                         !.m_last_bind_geometry_mesh = NULL]
        r3 == glBindElementBuffer(glBindArrayBuffer(r2, 0), 0)
        r4 == glUseProgram(r3, 0)
    IN IF Evaluated(r4) THEN glActiveTexture(UnbindTextures(r4, 0), 0) ELSE r4

\* cleanup leaving the last-bound memos as they are
cleanup_keepMemo(r) ==
    LET r0 == Emit(r, <<"cleanup">>)
        r1 == IF r0.m_last_bind_geometry # NULL
              THEN VertexDefEnd(r0, r0.m_last_bind_geometry_mesh,
                                MeshShader(r0.m_last_bind_geometry_mesh))
              ELSE r0
        r3 == glBindElementBuffer(glBindArrayBuffer(r1, 0), 0)
        r4 == glUseProgram(r3, 0)
    IN IF Evaluated(r4) THEN glActiveTexture(UnbindTextures(r4, 0), 0) ELSE r4

\* cleanup without the final glActiveTexture(GL_TEXTURE0)
cleanup_noActiveReset(r) ==
    LET r0 == Emit(r, <<"cleanup">>)
        r1 == IF r0.m_last_bind_geometry # NULL
              THEN VertexDefEnd(r0, r0.m_last_bind_geometry_mesh,
                                MeshShader(r0.m_last_bind_geometry_mesh))
              ELSE r0
        r2 == [r1 EXCEPT !.m_last_bind_geometry = NULL,
                         !.m_last_bind_geometry_mesh = NULL]
        r3 == glBindElementBuffer(glBindArrayBuffer(r2, 0), 0)
        r4 == glUseProgram(r3, 0)
    IN IF Evaluated(r4) THEN UnbindTextures(r4, 0) ELSE r4

\* cleanup clearing the mesh memo only
cleanup_clearsMeshOnly(r) ==
    LET r0 == Emit(r, <<"cleanup">>)
        r1 == IF r0.m_last_bind_geometry_mesh # NULL
              THEN VertexDefEnd(r0, r0.m_last_bind_geometry_mesh,
                                MeshShader(r0.m_last_bind_geometry_mesh))
              ELSE r0
        r2 == [r1 EXCEPT !.m_last_bind_geometry_mesh = NULL]
        r3 == glBindElementBuffer(glBindArrayBuffer(r2, 0), 0)
        r4 == glUseProgram(r3, 0)
    IN IF Evaluated(r4) THEN glActiveTexture(UnbindTextures(r4, 0), 0) ELSE r4

\* RendererImpl::cleanup
cleanup(r) ==
    LET r0 == Emit(r, <<"cleanup">>)
        r1 == IF r0.m_last_bind_geometry # NULL
              THEN VertexDefEnd(r0, r0.m_last_bind_geometry_mesh,
                                MeshShader(r0.m_last_bind_geometry_mesh))
              ELSE r0
        r2 == [r1 EXCEPT !.m_last_bind_geometry = NULL,
                         !.m_last_bind_geometry_mesh = NULL]
        r3 == glBindElementBuffer(glBindArrayBuffer(r2, 0), 0)
        r4 == glUseProgram(r3, 0)
    IN IF Evaluated(r4) THEN glActiveTexture(UnbindTextures(r4, 0), 0) ELSE r4

\* bindGeometry without the comparison against the last-bound mesh
bindGeometry_noMemo(r, geometry, mesh) ==
    LET r0 == Emit(r, <<"bindGeometry", geometry, mesh>>)
        r1 == IF r0.m_last_bind_geometry_mesh # NULL
              THEN VertexDefEnd(r0, r0.m_last_bind_geometry_mesh,
                                MeshShader(r0.m_last_bind_geometry_mesh))
              ELSE r0
        r2 == bindBuffers(r1, geometry)
        r3 == [r2 EXCEPT !.m_last_bind_geometry = geometry,
                         !.m_last_bind_geometry_mesh = mesh]
    IN VertexDefBegin(r3, mesh, MeshShader(mesh), getAttributeArrayOffset(mesh))

\* bindGeometry tearing the previous layout down against the new mesh's shader
bindGeometry_newShaderTeardown(r, geometry, mesh) ==
    LET r0 == Emit(r, <<"bindGeometry", geometry, mesh>>)
    IN IF r0.m_last_bind_geometry_mesh # mesh
       THEN LET r1 == IF r0.m_last_bind_geometry_mesh # NULL
                      THEN VertexDefEnd(r0, r0.m_last_bind_geometry_mesh, MeshShader(mesh))
                      ELSE r0
                r2 == bindBuffers(r1, geometry)
                r3 == [r2 EXCEPT !.m_last_bind_geometry = geometry,
                                 !.m_last_bind_geometry_mesh = mesh]
            IN VertexDefBegin(r3, mesh, MeshShader(mesh), getAttributeArrayOffset(mesh))
       ELSE r0

\* bindGeometry recording the mesh it binds, not the geometry
bindGeometry_recordsMeshOnly(r, geometry, mesh) ==
    LET r0 == Emit(r, <<"bindGeometry", geometry, mesh>>)
    IN IF r0.m_last_bind_geometry_mesh # mesh
       THEN LET r1 == IF r0.m_last_bind_geometry_mesh # NULL
                      THEN VertexDefEnd(r0, r0.m_last_bind_geometry_mesh,
                                        MeshShader(r0.m_last_bind_geometry_mesh))
                      ELSE r0
                r2 == bindBuffers(r1, geometry)
                r3 == [r2 EXCEPT !.m_last_bind_geometry_mesh = mesh]
            IN VertexDefBegin(r3, mesh, MeshShader(mesh), getAttributeArrayOffset(mesh))
       ELSE r0

\* bindGeometry
bindGeometry(r, geometry, mesh) ==
    LET r0 == Emit(r, <<"bindGeometry", geometry, mesh>>)
    IN IF r0.m_last_bind_geometry_mesh # mesh
       THEN LET r1 == IF r0.m_last_bind_geometry_mesh # NULL
                      THEN VertexDefEnd(r0, r0.m_last_bind_geometry_mesh,
                                        MeshShader(r0.m_last_bind_geometry_mesh))
                      ELSE r0
                r2 == bindBuffers(r1, geometry)
                r3 == [r2 EXCEPT !.m_last_bind_geometry = geometry,
                                 !.m_last_bind_geometry_mesh = mesh]
            IN VertexDefBegin(r3, mesh, MeshShader(mesh), getAttributeArrayOffset(mesh))
       ELSE r0

\* renderGeometry
renderGeometry(r, indices_offset, vertex_count) ==
    glDrawElements(r, vertex_count, indices_offset)

\* the texture binds of Material::apply for the textures i..count-1
RECURSIVE ApplyTextures(_, _, _)
ApplyTextures(r, material, i) ==
    IF i < MaterialTextureCount(material)
    THEN ApplyTextures(TextureApply(r, i, MaterialTexture(material, i)), material, i + 1)
    ELSE r

\* Material::apply: applies the material's shader, then binds its textures
MaterialApply(r, material) ==
    LET r0 == Emit(r, <<"Material::apply", material>>)
        r1 == applyShader(r0, getShader(material), MaterialCombination(material))
    IN ApplyTextures(r1, material, 0)

\* the loop of renderModel() drawing each sub-mesh before it binds its geometry
RECURSIVE RenderMeshes_drawBeforeBind(_, _, _, _)
RenderMeshes_drawBeforeBind(r, model, transform, i) ==
    IF i <= Len(getMeshes(model))
    THEN LET mesh == getMeshes(model)[i]
             r1 == MaterialApply(r, getMaterial(mesh))
             r2 == setFixedCachedUniform(r1, MeshShader(mesh), WORLD_MATRIX, transform)
             r3 == renderGeometry(r2, getIndicesOffset(mesh), getIndexCount(mesh))
             r4 == bindGeometry(r3, getGeometry(model), mesh)
         IN IF Evaluated(r4)
            THEN RenderMeshes_drawBeforeBind(r4, model, transform, i + 1)
            ELSE r4
    ELSE r

\* the loop of renderModel() over the sub-meshes i..c-1
RECURSIVE RenderMeshes(_, _, _, _)
RenderMeshes(r, model, transform, i) ==
    IF i <= Len(getMeshes(model))
    THEN LET mesh == getMeshes(model)[i]
             r1 == MaterialApply(r, getMaterial(mesh))
             r2 == setFixedCachedUniform(r1, MeshShader(mesh), WORLD_MATRIX, transform)
             r3 == bindGeometry(r2, getGeometry(model), mesh)
             r4 == renderGeometry(r3, getIndicesOffset(mesh), getIndexCount(mesh))
         IN IF Evaluated(r4) THEN RenderMeshes(r4, model, transform, i + 1) ELSE r4
    ELSE r

\* renderModel without the test of model.isReady()
renderModel_noReadyCheck(r, model, is_ready, transform) ==
    RenderMeshes(Emit(r, <<"renderModel", model, IF is_ready THEN 1 ELSE 0, transform>>),
                 model, transform, 1)

\* RendererImpl::renderModel; is_ready is what model.isReady() returned
renderModel(r, model, is_ready, transform) ==
    LET r0 == Emit(r, <<"renderModel", model, IF is_ready THEN 1 ELSE 0, transform>>)
    IN IF ~is_ready
       THEN r0
       ELSE RenderMeshes(r0, model, transform, 1)

\* Pipeline::render of the device's pipeline: draws the models of `steps`,
\* each a pair of a model and of what its isReady() returns
RECURSIVE PipelineRender(_, _, _)
PipelineRender(r, steps, i) ==
    IF i <= Len(steps)
    THEN LET r1 == renderModel(r, steps[i][1], steps[i][2], 0)
         IN IF Evaluated(r1) THEN PipelineRender(r1, steps, i + 1) ELSE r1
    ELSE r

\* RendererImpl::render; `steps` is what the device's pipeline draws
render(r, device, steps) ==
    LET r0 == Emit(r, <<"render", device>>)
        r1 == glDisableBlend(glEnableDepthTest(r0))
        r2 == PipelineRender(Emit(r1, <<"Pipeline::render", device>>), steps, 1)
    IN IF Evaluated(r2) THEN cleanup(r2) ELSE r2

\* the process dies of `how` at this point of the operation
Dies(r, how) == [r EXCEPT !.fault = how]

\* RendererImpl::setRenderDevice; the argument is a reference, never NULL
setRenderDevice(r, device) ==
    Emit([r EXCEPT !.m_render_device = device], <<"setRenderDevice", device>>)

\* renderGame ending the frame before it renders
renderGame_endFrameFirst(r, reads_as_null, steps) ==
    LET r0 == Emit(r, <<"renderGame">>)
    IN IF r0.m_render_device \in Devices
       THEN LET r1 == Emit(r0, <<"beginFrame", r0.m_render_device>>)
                r2 == Emit(r1, <<"endFrame", r1.m_render_device>>)
            IN render(r2, r2.m_render_device, steps)
       ELSE r0

\* RendererImpl::renderGame.  `reads_as_null` is what the test of an
\* indeterminate m_render_device yields; behind a non-NULL indeterminate
\* pointer there is no device, and the call through it kills the process.
renderGame(r, reads_as_null, steps) ==
    LET r0 == Emit(r, <<"renderGame">>)
    IN IF r0.m_render_device = INDETERMINATE
       THEN IF reads_as_null
            THEN r0
            ELSE Dies(Emit(r0, <<"beginFrame", INDETERMINATE>>), "wild pointer")
       ELSE IF r0.m_render_device # NULL
       THEN LET r1 == Emit(r0, <<"beginFrame", r0.m_render_device>>)
                r2 == render(r1, r1.m_render_device, steps)
            IN Emit(r2, <<"endFrame", r2.m_render_device>>)
       ELSE r0

\* the shader that ResourceManager::load returns for "shaders/debug.shd"
DebugShader == NumShaders

\* create returning before the load when glewInit() fails
create_failsEarly(r, glew_ok, loaded) ==
    LET r0 == Emit(r, <<"create">>)
        r1 == Emit(r0, <<"ShaderManager::setRenderer">>)
        r2 == Emit(r1, <<"registerPropertyDescriptors">>)
        r3 == Emit(r2, <<"glewInit", IF glew_ok THEN 1 ELSE 0>>)
        r4 == Emit([r3 EXCEPT !.m_debug_shader = loaded], <<"load", loaded>>)
    IN IF glew_ok THEN Emit(r4, <<"return", 1>>) ELSE Emit(r3, <<"return", 0>>)

\* RendererImpl::create.  `glew_ok` is whether glewInit() returned GLEW_OK,
\* `loaded` is the pointer that the load of the debug shader returned.
create(r, glew_ok, loaded) ==
    LET r0 == Emit(r, <<"create">>)
        r1 == Emit(r0, <<"ShaderManager::setRenderer">>)
        r2 == Emit(r1, <<"registerPropertyDescriptors">>)
        r3 == Emit(r2, <<"glewInit", IF glew_ok THEN 1 ELSE 0>>)
        r4 == Emit([r3 EXCEPT !.m_debug_shader = loaded], <<"load", loaded>>)
    IN Emit(r4, <<"return", IF glew_ok THEN 1 ELSE 0>>)

\* RendererImpl::destroy: the unload goes through m_debug_shader
destroy(r) ==
    LET r0 == Emit(r, <<"destroy">>)
    IN IF r0.m_debug_shader = INDETERMINATE
       THEN Dies(r0, "wild pointer")
       ELSE IF r0.m_debug_shader = NULL
       THEN Dies(r0, "null pointer")
       ELSE Emit(r0, <<"unload", r0.m_debug_shader>>)

\* RendererImpl::getDebugShader.  `reads_as_null` is what the ASSERT on an
\* indeterminate m_debug_shader sees; a failed ASSERT kills the process.
getDebugShader(r, reads_as_null) ==
    LET r0 == Emit(r, <<"getDebugShader">>)
    IN IF r0.m_debug_shader = NULL
          \/ (r0.m_debug_shader = INDETERMINATE /\ reads_as_null)
       THEN Dies(r0, "assertion")
       ELSE Emit(r0, <<"return", r0.m_debug_shader>>)

\* RendererImpl::setEditorWireframe
setEditorWireframe(r, is_wireframe) ==
    Emit([r EXCEPT !.m_is_editor_wireframe = is_wireframe],
         <<"setEditorWireframe", IF is_wireframe THEN 1 ELSE 0>>)

\* RendererImpl::isEditorWireframe, getPass, getCurrentViewMatrix and
\* getCurrentProjectionMatrix
isEditorWireframe(r) == r.m_is_editor_wireframe

getPass(r) == r.m_current_pass_hash

getCurrentViewMatrix(r) == r.m_view_matrix

getCurrentProjectionMatrix(r) == r.m_projection_matrix

\* the search loop of getAttributeNameIndex from index i on: the index of the
\* first entry equal to name, -1 if the loop runs to its end
RECURSIVE FindAttributeName(_, _, _)
FindAttributeName(names, name, i) ==
    IF i < Len(names)
    THEN IF names[i + 1] = name THEN i ELSE FindAttributeName(names, name, i + 1)
    ELSE -1

\* getAttributeNameIndex appending without searching
getAttributeNameIndex_alwaysAppends(r, name) ==
    LET r0 == Emit(r, <<"getAttributeNameIndex", name>>)
        r1 == [r0 EXCEPT !.m_attribute_names = Append(@, name)]
    IN Emit(r1, <<"return", Len(r1.m_attribute_names) - 1>>)

\* getAttributeNameIndex returning the size of the registry for a new name
getAttributeNameIndex_returnsSize(r, name) ==
    LET r0 == Emit(r, <<"getAttributeNameIndex", name>>)
        found == FindAttributeName(r0.m_attribute_names, name, 0)
    IN IF found >= 0
       THEN Emit(r0, <<"return", found>>)
       ELSE LET r1 == [r0 EXCEPT !.m_attribute_names = Append(@, name)]
            IN Emit(r1, <<"return", Len(r1.m_attribute_names)>>)

\* RendererImpl::getAttributeNameIndex; a name is the content of the string
getAttributeNameIndex(r, name) ==
    LET r0 == Emit(r, <<"getAttributeNameIndex", name>>)
        found == FindAttributeName(r0.m_attribute_names, name, 0)
    IN IF found >= 0
       THEN Emit(r0, <<"return", found>>)
       ELSE LET r1 == [r0 EXCEPT !.m_attribute_names = Append(@, name)]
            IN Emit(r1, <<"return", Len(r1.m_attribute_names) - 1>>)

\* setPass invalidating the program cache
setPass_invalidatesProgram(r, pass_hash) ==
    Emit([r EXCEPT !.m_current_pass_hash = pass_hash,
                   !.m_last_program_id = INVALID_PROGRAM_ID],
         <<"setPass", pass_hash>>)

\* RendererImpl::setPass
setPass(r, pass_hash) ==
    Emit([r EXCEPT !.m_current_pass_hash = pass_hash], <<"setPass", pass_hash>>)

\* RendererImpl::setViewMatrix
setViewMatrix(r, matrix) ==
    Emit([r EXCEPT !.m_view_matrix = matrix], <<"setViewMatrix", matrix>>)

\* RendererImpl::setProjectionMatrix
setProjectionMatrix(r, matrix) ==
    Emit([r EXCEPT !.m_projection_matrix = matrix], <<"setProjectionMatrix", matrix>>)

(***************************************************************************)
(* Renderer::getLookAtMatrix and the Vec3 / Matrix operations it uses      *)
(***************************************************************************)
Coords == (0 - MaxCoord)..MaxCoord

\* Vec3: operator-, unary operator-, crossProduct, dotProduct
VecSub(a, b) == <<a[1] - b[1], a[2] - b[2], a[3] - b[3]>>

VecNeg(a) == <<0 - a[1], 0 - a[2], 0 - a[3]>>

crossProduct(a, b) ==
    <<a[2] * b[3] - a[3] * b[2], a[3] * b[1] - a[1] * b[3], a[1] * b[2] - a[2] * b[1]>>

dotProduct(a, b) == a[1] * b[1] + a[2] * b[2] + a[3] * b[3]

\* Vec3::squaredLength and Vec3::length; the vectors normalized here have an
\* integer length
squaredLength(a) == dotProduct(a, a)

length(a) == CHOOSE n \in 0..squaredLength(a) : n * n = squaredLength(a)

\* Vec3::normalize: every component divided by the length
normalize(a) == <<a[1] \div length(a), a[2] \div length(a), a[3] \div length(a)>>

\* Matrix: four rows m1x..m4x of four columns
IDENTITY == <<(<<1, 0, 0, 0>>), (<<0, 1, 0, 0>>), (<<0, 0, 1, 0>>), (<<0, 0, 0, 1>>)>>

\* Matrix::setXVector, setYVector, setZVector: m11..m13, m21..m23, m31..m33
setRowVector(mtx, row, v) ==
    [mtx EXCEPT ![row] = <<v[1], v[2], v[3], mtx[row][4]>>]

setXVector(mtx, v) == setRowVector(mtx, 1, v)

setYVector(mtx, v) == setRowVector(mtx, 2, v)

setZVector(mtx, v) == setRowVector(mtx, 3, v)

\* Matrix::setTranslation: m41..m43
setTranslation(mtx, v) == setRowVector(mtx, 4, v)

\* Matrix::transpose
transpose(mtx) == [i \in 1..4 |-> [j \in 1..4 |-> mtx[j][i]]]

\* getLookAtMatrix setting the translation before it transposes
getLookAtMatrix_translateFirst(pos, center, up) ==
    LET f == normalize(VecSub(center, pos))
        r == normalize(crossProduct(f, up))
        u == crossProduct(r, f)
        m1 == setZVector(setYVector(setXVector(IDENTITY, r), u), VecNeg(f))
        m2 == setTranslation(m1, <<0 - dotProduct(r, pos), 0 - dotProduct(u, pos),
                                   dotProduct(f, pos)>>)
    IN transpose(m2)

\* Renderer::getLookAtMatrix: the matrix written to *mtx
getLookAtMatrix(pos, center, up) ==
    LET f == normalize(VecSub(center, pos))
        r == normalize(crossProduct(f, up))
        u == crossProduct(r, f)
        m1 == setZVector(setYVector(setXVector(IDENTITY, r), u), VecNeg(f))
        m2 == transpose(m1)
    IN setTranslation(m2, <<0 - dotProduct(r, pos), 0 - dotProduct(u, pos),
                            dotProduct(f, pos)>>)

\* a call of getLookAtMatrix that has not yet written its result
LookAtCall(pos, center, up) ==
    [pos |-> pos, center |-> center, up |-> up, done |-> FALSE, mtx |-> IDENTITY]

\* the axis-aligned vectors with integer components
AxisVectors ==
    {v \in Coords \X Coords \X Coords :
        Cardinality({i \in 1..3 : v[i] # 0}) = 1}

\* the calls whose view direction center - pos and whose up vector are
\* axis-aligned and not parallel
LookAtCalls ==
    {LookAtCall(t[1], <<t[1][1] + t[2][1], t[1][2] + t[2][2], t[1][3] + t[2][3]>>, t[3]) :
        t \in {x \in (Coords \X Coords \X Coords) \X AxisVectors \X AxisVectors :
                  crossProduct(x[2], x[3]) # <<0, 0, 0>>}}

(***************************************************************************)
(* History variables, derived from the call trace of each operation        *)
(***************************************************************************)
RunCap == 2

Capped(n) == IF n < RunCap THEN n ELSE RunCap

\* the operation that produced the current state
LastOp == IF events = <<>> THEN "none" ELSE events[1][1]

\* number of calls of `name` in a trace
CountCalls(evs, name) == Cardinality({i \in 1..Len(evs) : evs[i][1] = name})

NoUniformRun == [shader |-> NULL, binds |-> 0]

\* a run of consecutive setUniform calls on one shader, and the number of
\* program binds issued during it
UniformRunAfter(run, evs) ==
    IF evs[1][1] = "setUniform"
    THEN LET old == IF run.shader = evs[1][2] THEN run ELSE NoUniformRun
         IN [shader |-> evs[1][2],
             binds |-> Capped(old.binds + CountCalls(evs, "glUseProgram"))]
    ELSE NoUniformRun

NoGeometryRun == [mesh |-> NULL, buffer_binds |-> 0, begins |-> 0]

\* The run of consecutive bindGeometry calls that target one mesh, and the
\* number of buffer binds and layout begins issued during it, after the call
\* trace evs.  A run ends at a cleanup and at a bindGeometry call that
\* targets another mesh than the call before it.
GeometryRunAfter(run, evs) ==
    LET binds == {i \in 1..Len(evs) : evs[i][1] = "bindGeometry"}
        cleans == {i \in 1..Len(evs) : evs[i][1] = "cleanup"}
        Last(S) == CHOOSE i \in S : \A j \in S : j <= i
        MeshBefore(i) ==
            LET before == {j \in binds \cup cleans : j < i}
            IN IF before = {} THEN run.mesh
               ELSE IF Last(before) \in cleans THEN NULL
               ELSE evs[Last(before)][3]
        starts == cleans \cup {i \in binds : evs[i][3] # MeshBefore(i)}
        Count(name, from) ==
            Cardinality({i \in from..Len(evs) : evs[i][1] = name})
    IN IF starts = {}
       THEN [run EXCEPT !.buffer_binds = Capped(@ + Count("bindBuffers", 1)),
                        !.begins = Capped(@ + Count("VertexDef::begin", 1))]
       ELSE [mesh |-> IF Last(starts) \in cleans THEN NULL ELSE evs[Last(starts)][3],
             buffer_binds |-> Capped(Count("bindBuffers", Last(starts))),
             begins |-> Capped(Count("VertexDef::begin", Last(starts)))]

\* the first-seen rank of every name after the call trace evs
FirstSeenAfter(seen, evs) ==
    IF evs[1][1] = "getAttributeNameIndex" /\ seen[evs[1][2]] < 0
    THEN [seen EXCEPT ![evs[1][2]] = Cardinality({n \in Names : seen[n] >= 0})]
    ELSE seen

\* one operation of a running process: the state becomes r, the histories
\* follow its call trace
Do(r) ==
    /\ fault = "none"
    /\ Becomes(r)
    /\ program_bound' = (program_bound
                           \/ \E i \in 1..Len(r.events) :
                                 r.events[i][1] = "glUseProgram" /\ r.events[i][2] # 0)
    /\ uniform_run' = UniformRunAfter(uniform_run, r.events)
    /\ geometry_run' = GeometryRunAfter(geometry_run, r.events)
    /\ cleanup_run' = IF r.events[1][1] = "cleanup" THEN Capped(cleanup_run + 1) ELSE 0
    /\ first_seen' = FirstSeenAfter(first_seen, r.events)
    /\ create_result' = IF r.events[1][1] = "create"
                        THEN r.events[Len(r.events)][2]
                        ELSE create_result
    /\ UNCHANGED lookat

(***************************************************************************)
(* Initial state: a constructed renderer on a fresh GL context.  The        *)
(* constructor assigns neither matrix, so each starts with any value, and  *)
(* neither m_render_device nor m_debug_shader.                             *)
(***************************************************************************)
RendererInit ==
    /\ m_last_program_id = INVALID_PROGRAM_ID
    /\ m_last_bind_geometry = NULL
    /\ m_last_bind_geometry_mesh = NULL
    /\ m_current_pass_hash = MAIN_HASH
    /\ m_view_matrix \in Matrices
    /\ m_projection_matrix \in Matrices
    /\ shader_program = [s \in Shaders |-> ProgramOf(s, 0, MAIN_HASH)]
    /\ gl_program = 0
    /\ gl_array_buffer = 0
    /\ gl_element_buffer = 0
    /\ gl_layouts = [m \in Meshes |-> 0]
    /\ gl_layout_fault = FALSE
    /\ gl_textures = [u \in TextureUnits |-> 0]
    /\ gl_active_texture = 0
    /\ m_render_device = INDETERMINATE
    /\ m_is_editor_wireframe = FALSE
    /\ m_debug_shader = INDETERMINATE
    /\ m_attribute_names = <<>>
    /\ fault = "none"
    /\ events = <<>>
    /\ draws = <<>>
    /\ program_bound = FALSE
    /\ uniform_run = NoUniformRun
    /\ geometry_run = NoGeometryRun
    /\ cleanup_run = 0
    /\ first_seen = [n \in Names |-> -1]
    /\ create_result = -1

\* no getLookAtMatrix call is under way
Init ==
    /\ RendererInit
    /\ lookat = LookAtCall(<<0, 0, 0>>, <<0, 0, 0 - MaxCoord>>, <<0, MaxCoord, 0>>)

(***************************************************************************)
(* Actions: one per operation                                              *)
(***************************************************************************)
SetUniform ==
    \E shader \in Shaders, loc \in Locs, value \in Values :
        Do(setUniform(Cur, shader, loc, value))

SetFixedCachedUniform ==
    \E shader \in Shaders, name \in FixedUniforms, value \in Values :
        Do(setFixedCachedUniform(Cur, shader, name, value))

ApplyShader ==
    \E shader \in Shaders, combination \in Combinations :
        Do(applyShader(Cur, shader, combination))

Cleanup == Do(cleanup(Cur))

BindGeometry ==
    \E model \in Models :
        \E mesh \in ModelMeshSet(model) :
            Do(bindGeometry(Cur, getGeometry(model), mesh))

RenderModel ==
    \E model \in Models, is_ready \in BOOLEAN, transform \in Values :
        Do(renderModel(Cur, model, is_ready, transform))

\* sequences of (model, isReady()) pairs of length at most MaxPipelineLen
PipelineSteps == UNION {[1..n -> Models \X BOOLEAN] : n \in 0..MaxPipelineLen}

Render == \E device \in Devices, steps \in PipelineSteps : Do(render(Cur, device, steps))

SetPass == \E pass_hash \in PassHashes : Do(setPass(Cur, pass_hash))

SetViewMatrix == \E matrix \in Matrices : Do(setViewMatrix(Cur, matrix))

SetProjectionMatrix == \E matrix \in Matrices : Do(setProjectionMatrix(Cur, matrix))

SetRenderDevice == \E device \in Devices : Do(setRenderDevice(Cur, device))

RenderGame ==
    \E reads_as_null \in BOOLEAN, steps \in PipelineSteps :
        Do(renderGame(Cur, reads_as_null, steps))

Create ==
    \E glew_ok \in BOOLEAN, loaded \in {NULL, DebugShader} :
        Do(create(Cur, glew_ok, loaded))

Destroy == Do(destroy(Cur))

GetDebugShader == \E reads_as_null \in BOOLEAN : Do(getDebugShader(Cur, reads_as_null))

SetEditorWireframe ==
    \E is_wireframe \in BOOLEAN : Do(setEditorWireframe(Cur, is_wireframe))

GetAttributeNameIndex == \E name \in Names : Do(getAttributeNameIndex(Cur, name))

\* the operations that use or feed the binding caches
Next ==
    \/ SetUniform
    \/ SetFixedCachedUniform
    \/ ApplyShader
    \/ Cleanup
    \/ BindGeometry
    \/ RenderModel
    \/ Render
    \/ SetPass
    \/ SetViewMatrix
    \/ SetProjectionMatrix

Spec == Init /\ [][Next]_vars

\* the operations of the engine that hosts the renderer: start-up, the
\* choice of a render device, frames, shutdown
NextHost ==
    \/ Create
    \/ Destroy
    \/ GetDebugShader
    \/ SetRenderDevice
    \/ RenderGame
    \/ BindGeometry

SpecHost == Init /\ [][NextHost]_vars

\* the operations on the plain fields of the renderer and on its
\* attribute-name registry, among operations that use the binding caches
NextRegistry ==
    \/ GetAttributeNameIndex
    \/ SetViewMatrix
    \/ SetProjectionMatrix
    \/ SetPass
    \/ SetEditorWireframe
    \/ SetRenderDevice
    \/ RenderModel
    \/ Cleanup

SpecRegistry == Init /\ [][NextRegistry]_vars

\* Renderer::getLookAtMatrix is static: it touches no renderer
rendererVars ==
    <<rendererFields, driverState, shader_program, gl_layout_fault, fault, events,
      draws, program_bound, uniform_run, geometry_run, cleanup_run, first_seen,
      create_result>>

GetLookAtMatrix ==
    /\ ~lookat.done
    /\ lookat' = [lookat EXCEPT
                     !.mtx = getLookAtMatrix(lookat.pos, lookat.center, lookat.up),
                     !.done = TRUE]
    /\ UNCHANGED rendererVars

InitLookAt ==
    /\ RendererInit
    /\ lookat \in LookAtCalls

NextLookAt == GetLookAtMatrix

SpecLookAt == InitLookAt /\ [][NextLookAt]_vars

(***************************************************************************)
(* Properties                                                              *)
(***************************************************************************)
\* the entry of the setUniform / setFixedCachedUniform call that issued the
\* uniform write at position i of the call trace
WriterOf(evs, i) ==
    LET callers == {k \in 1..(i - 1) : evs[k][1] \in {"setUniform", "setFixedCachedUniform"}}
    IN evs[CHOOSE k \in callers : \A j \in callers : j <= k]

\* the uniform writes of the most recent operation
UniformWrites == {i \in 1..Len(events) : events[i][1] = "glUniform"}

\* C1: once a program has been bound through the renderer, the cached
\* current-program id equals the program bound at the driver, also right
\* after cleanup().
C1_CachedProgramIsBoundProgram ==
    program_bound => m_last_program_id = gl_program

\* C2: every uniform write issued by setUniform / setFixedCachedUniform goes
\* to the program of the shader that was passed to the call.
C2_UniformWriteTargetsShaderProgram ==
    \A i \in UniformWrites : events[i][4] = WriterOf(events, i)[3]

\* C3: over a run of consecutive setUniform calls on the same shader the
\* program is bound at most once.
C3_NoRedundantRebind ==
    uniform_run.binds <= 1

\* the latest call of a run wrote its uniform without binding: the one bind
\* of the run was issued by an earlier call of the run
C3_Witness ==
    /\ uniform_run.binds = 1
    /\ CountCalls(events, "glUniform") = 1
    /\ CountCalls(events, "glUseProgram") = 0

\* C4: a setUniform / setFixedCachedUniform call whose uniform resolves to a
\* location < 0 issues no driver call and changes no renderer, shader or
\* driver state.
C4_UnresolvedUniformIsNoop ==
    [][(/\ LastOp' \in {"setUniform", "setFixedCachedUniform"}
        /\ events'[1][4] < 0)
       => (/\ Len(events') = 1
           /\ UNCHANGED <<rendererFields, driverState, shader_program>>)]_vars

\* an unresolved uniform of a shader whose program is neither cached nor bound
C4_Witness ==
    /\ program_bound
    /\ LastOp \in {"setUniform", "setFixedCachedUniform"}
    /\ events[1][4] < 0
    /\ m_last_program_id # shader_program[events[1][2]]
    /\ gl_program # shader_program[events[1][2]]

\* the call trace of setFixedCachedUniform(shader, name, value) when the
\* shader's program id is already bound and cached
FixedUniformPush(shader, id, name, value) ==
    LET loc == getFixedCachedUniformLocation(shader, name)
    IN <<(<<"setFixedCachedUniform", shader, id, loc>>)>>
       \o (IF loc >= 0 THEN <<(<<"glUniform", loc, value, id>>)>> ELSE <<>>)

\* C5: applyShader(shader, combination) selects the shader's program for
\* (combination, current pass), the pass being the argument of the last
\* setPass call or the hash of "MAIN"; it binds that program and caches its
\* id, and only then pushes the view and the projection matrix of the core,
\* skipping each whose location is < 0.
C5_ApplyShaderBindsThenPushes ==
    /\ m_current_pass_hash = MAIN_HASH
    /\ [][/\ m_current_pass_hash' =
               (IF LastOp' = "setPass" THEN events'[1][2] ELSE m_current_pass_hash)
          /\ LastOp' = "applyShader" =>
               LET shader == events'[1][2]
                   combination == events'[1][3]
                   id == ProgramOf(shader, combination, m_current_pass_hash)
               IN /\ shader_program'[shader] = id
                  /\ gl_program' = id
                  /\ m_last_program_id' = id
                  /\ events' =
                       <<(<<"applyShader", shader, combination>>),
                         (<<"setCurrentCombination", shader, combination,
                            m_current_pass_hash>>),
                         (<<"glUseProgram", id>>)>>
                       \o FixedUniformPush(shader, id, VIEW_MATRIX, m_view_matrix)
                       \o FixedUniformPush(shader, id, PROJECTION_MATRIX,
                                           m_projection_matrix)]_vars

C5_Witness ==
    /\ LastOp = "applyShader"
    /\ m_current_pass_hash # MAIN_HASH
    /\ m_view_matrix # m_projection_matrix
    /\ Len(events) = 6

\* the layout teardown bindGeometry and cleanup issue for a bound mesh
TeardownOf(mesh) ==
    IF mesh # NULL THEN <<(<<"VertexDef::end", mesh, MeshShader(mesh)>>)>> ELSE <<>>

\* C6: bindGeometry on the last-bound mesh is a no-op, and over a run of
\* consecutive bindGeometry calls (direct or by renderModel) that target the
\* same mesh exactly one buffer bind and one layout begin are issued.
C6_SameMeshBoundOnce ==
    [][/\ (/\ LastOp' = "bindGeometry"
           /\ events'[1][3] = m_last_bind_geometry_mesh)
          => (/\ Len(events') = 1
              /\ UNCHANGED <<caches, driverState>>)
       /\ geometry_run'.mesh # NULL
          => (/\ geometry_run'.buffer_binds = 1
              /\ geometry_run'.begins = 1)]_vars

\* the latest bindGeometry call of a run did nothing: the one buffer bind of
\* the run was issued by an earlier call of the run
C6_Witness ==
    /\ LastOp = "bindGeometry"
    /\ Len(events) = 1
    /\ geometry_run.mesh = events[1][3]
    /\ geometry_run.buffer_binds = 1
    /\ geometry_run.begins = 1

\* C7: bindGeometry on another mesh than the last-bound one tears down the
\* previous mesh's layout against the previous mesh's shader (if a mesh was
\* bound), binds the new geometry's buffers, records the new geometry and
\* mesh, and sets up the new mesh's layout against its shader at its
\* attribute-array offset, in this order.
C7_RebindOrder ==
    [][(/\ LastOp' = "bindGeometry"
        /\ events'[1][3] # m_last_bind_geometry_mesh)
       => LET geometry == events'[1][2]
              mesh == events'[1][3]
          IN /\ events' =
                   <<(<<"bindGeometry", geometry, mesh>>)>>
                   \o TeardownOf(m_last_bind_geometry_mesh)
                   \o <<(<<"bindBuffers", geometry>>),
                        (<<"VertexDef::begin", mesh, MeshShader(mesh),
                           getAttributeArrayOffset(mesh)>>)>>
             /\ m_last_bind_geometry' = geometry
             /\ m_last_bind_geometry_mesh' = mesh
             /\ gl_array_buffer' = geometry
             /\ gl_element_buffer' = geometry]_vars

\* a rebind from a mesh of one shader to a mesh of another shader
C7_Witness ==
    /\ LastOp = "bindGeometry"
    /\ Len(events) = 4
    /\ events[2][1] = "VertexDef::end"
    /\ events[2][3] # MeshShader(events[1][3])

\* C8: at most one mesh's vertex layout is enabled at the driver, namely
\* that of the last-bound mesh, and no layout is begun while another one is
\* enabled nor ended while it is not enabled.
C8_OneLayoutEnabled ==
    /\ ~gl_layout_fault
    /\ \A m \in Meshes :
          gl_layouts[m] = IF m = m_last_bind_geometry_mesh THEN 1 ELSE 0

\* a layout is enabled after another one has been torn down
C8_Witness ==
    /\ m_last_bind_geometry_mesh # NULL
    /\ gl_layouts[m_last_bind_geometry_mesh] = 1
    /\ \E i \in 1..Len(events) :
          /\ events[i][1] = "VertexDef::end"
          /\ events[i][2] # m_last_bind_geometry_mesh

\* the most recent operation ended with cleanup()
EndedWithCleanup == LastOp \in {"cleanup", "render"}

\* C9: cleanup() right after a cleanup() leaves the driver state and the
\* binding caches as they are and tears down no vertex layout.
C9_CleanupIdempotent ==
    [][(EndedWithCleanup /\ LastOp' = "cleanup")
       => (/\ UNCHANGED <<driverState, caches>>
           /\ CountCalls(events', "VertexDef::end") = 0)]_vars

C9_Witness ==
    /\ cleanup_run = 2
    /\ program_bound

\* C10: after cleanup() the last-bound mesh's layout, if any, has been torn
\* down exactly once against that mesh's shader, both memos are cleared,
\* the buffer bindings and the bound program are 0, texture 0 is bound on
\* each of the 16 units and unit 0 is active.
C10_CleanupPostcondition ==
    [][LastOp' = "cleanup"
       => (/\ SelectSeq(events', LAMBDA e : e[1] = "VertexDef::end")
                = TeardownOf(m_last_bind_geometry_mesh)
           /\ \A m \in Meshes : gl_layouts'[m] = 0
           /\ m_last_bind_geometry' = NULL
           /\ m_last_bind_geometry_mesh' = NULL
           /\ gl_array_buffer' = 0
           /\ gl_element_buffer' = 0
           /\ gl_program' = 0
           /\ DOMAIN gl_textures' = 0..15
           /\ \A u \in 0..15 : gl_textures'[u] = 0
           /\ gl_active_texture' = 0)]_vars

\* a cleanup that had a layout to tear down
C10_Witness ==
    /\ LastOp = "cleanup"
    /\ CountCalls(events, "VertexDef::end") = 1

\* every variable of the renderer, its shaders and the driver
programState == <<rendererFields, driverState, shader_program, gl_layout_fault>>

\* C13: renderModel on a model that is not ready issues no call at all (no
\* draw, no material or shader bind, no geometry bind, no uniform write) and
\* leaves the program cache, the last-bound memos and all other state
\* unchanged, whether it is called directly or by the pipeline.
C13_NotReadyModelIsNoop ==
    [][/\ \A i \in 1..Len(events') :
             (events'[i][1] = "renderModel" /\ events'[i][3] = 0)
             => (\/ i = Len(events')
                 \/ events'[i + 1][1] \in {"renderModel", "cleanup"})
       /\ (LastOp' = "renderModel" /\ events'[1][3] = 0)
          => (/\ Len(events') = 1
              /\ UNCHANGED programState)]_vars

\* a not-ready model is rendered while a mesh and a program are bound
C13_Witness ==
    /\ LastOp = "renderModel"
    /\ events[1][3] = 0
    /\ m_last_bind_geometry_mesh # NULL
    /\ gl_program # 0

\* the calls that make up the steps of renderModel for one sub-mesh
ModelSteps ==
    {"Material::apply", "applyShader", "setFixedCachedUniform", "glUniform",
     "bindGeometry", "glDrawElements"}

\* the steps renderModel has to take for the sub-meshes i..n-1 of a model, in
\* the pass and with the view and projection matrix of the current state
RECURSIVE ExpectedModelSteps(_, _, _)
ExpectedModelSteps(model, transform, i) ==
    IF i > Len(getMeshes(model)) THEN <<>>
    ELSE LET mesh == getMeshes(model)[i]
             material == getMaterial(mesh)
             shader == getShader(material)
             combination == MaterialCombination(material)
             id == ProgramOf(shader, combination, m_current_pass_hash)
         IN <<(<<"Material::apply", material>>), (<<"applyShader", shader, combination>>)>>
            \o FixedUniformPush(shader, id, VIEW_MATRIX, m_view_matrix)
            \o FixedUniformPush(shader, id, PROJECTION_MATRIX, m_projection_matrix)
            \o FixedUniformPush(shader, id, WORLD_MATRIX, transform)
            \o <<(<<"bindGeometry", getGeometry(model), mesh>>),
                 (<<"glDrawElements", getIndexCount(mesh), getIndicesOffset(mesh)>>)>>
            \o ExpectedModelSteps(model, transform, i + 1)

\* C14: renderModel on a ready model processes its n sub-meshes in
\* declaration order and for each one applies the mesh's material, pushes
\* the world matrix on that material's shader, binds the model's geometry
\* for the mesh by bindGeometry and issues one indexed draw with the mesh's
\* index offset and index count, in this order; it issues n draws in all.
C14_ReadyModelDrawsEachMesh ==
    [][(LastOp' = "renderModel" /\ events'[1][3] = 1)
       => LET model == events'[1][2]
              transform == events'[1][4]
          IN /\ SelectSeq(Tail(events'), LAMBDA e : e[1] \in ModelSteps)
                   = ExpectedModelSteps(model, transform, 1)
             /\ CountCalls(events', "glDrawElements") = Len(getMeshes(model))]_vars

\* a model of two sub-meshes was drawn
C14_Witness ==
    /\ LastOp = "renderModel"
    /\ events[1][3] = 1
    /\ CountCalls(events, "glDrawElements") = 2
    /\ CountCalls(events, "bindBuffers") = 2

\* the calls cleanup() issues
CleanupCalls ==
    {"VertexDef::end", "glBindBuffer(GL_ARRAY_BUFFER)",
     "glBindBuffer(GL_ELEMENT_ARRAY_BUFFER)", "glUseProgram", "glActiveTexture",
     "glBindTexture"}

\* C11: with a render device set, renderGame() calls the device's
\* beginFrame, enables the depth test, disables blending, runs the render
\* step of that device's pipeline, runs cleanup to its end and only then
\* calls the device's endFrame; beginFrame, cleanup and endFrame occur once.
C11_FrameOrder ==
    [][(LastOp' = "renderGame" /\ m_render_device \in Devices)
       => LET evs == events'
              n == Len(evs)
              device == m_render_device
              c == CHOOSE i \in 1..n : evs[i][1] = "cleanup"
          IN /\ fault' = "none"
             /\ n > 7
             /\ SubSeq(evs, 1, 6) =
                   <<(<<"renderGame">>), (<<"beginFrame", device>>),
                     (<<"render", device>>), (<<"glEnable(GL_DEPTH_TEST)">>),
                     (<<"glDisable(GL_BLEND)">>), (<<"Pipeline::render", device>>)>>
             /\ evs[n] = <<"endFrame", device>>
             /\ CountCalls(evs, "beginFrame") = 1
             /\ CountCalls(evs, "endFrame") = 1
             /\ CountCalls(evs, "cleanup") = 1
             /\ c > 6
             /\ \A i \in 7..(c - 1) : evs[i][1] \notin {"render", "Pipeline::render"}
             /\ \A i \in (c + 1)..(n - 1) : evs[i][1] \in CleanupCalls
             /\ evs[n - 1] = <<"glActiveTexture", 0>>
             /\ m_render_device' = device]_vars

\* a frame whose pipeline drew a model, started with a mesh still bound
C11_Witness ==
    /\ LastOp = "renderGame"
    /\ events[Len(events)][1] = "endFrame"
    /\ CountCalls(events, "glDrawElements") > 0
    /\ CountCalls(events, "VertexDef::end") > 1

\* C12: on a renderer on which setRenderDevice was never called,
\* renderGame() calls no device method, issues no driver call, changes no
\* state and does not crash.
C12_RenderGameWithoutDeviceIsNoop ==
    [][(LastOp' = "renderGame" /\ m_render_device \notin Devices)
       => (/\ Len(events') = 1
           /\ fault' = "none"
           /\ UNCHANGED programState)]_vars

\* the value returned by the most recent operation
Returned == events[Len(events)][2]

\* C15: getAttributeNameIndex maps the k-th distinct name it has ever been
\* given (counting from 0) to the index k, on the call that introduces the
\* name and on every later call with that name.
C15_IndexIsFirstSeenRank ==
    [][LastOp' = "getAttributeNameIndex"
       => (/\ Len(events') = 2
           /\ events'[2][1] = "return"
           /\ Returned' = first_seen'[events'[1][2]]
           /\ \A n \in Names : first_seen[n] >= 0 => first_seen'[n] = first_seen[n])]_vars

\* the first name is looked up again after a second name has been introduced
C15_Witness ==
    /\ LastOp = "getAttributeNameIndex"
    /\ Returned = 0
    /\ Len(m_attribute_names) = 2

\* C16: the attribute-name registry never holds a name twice; a
\* getAttributeNameIndex call keeps the existing entries as a prefix and adds
\* exactly the name it was given when that name is not in the registry, and
\* nothing otherwise; no other operation changes the registry.
C16_RegistryAppendOnly ==
    /\ [](\A i, j \in 1..Len(m_attribute_names) :
             m_attribute_names[i] = m_attribute_names[j] => i = j)
    /\ [][IF LastOp' = "getAttributeNameIndex"
          THEN IF \E i \in 1..Len(m_attribute_names) :
                     m_attribute_names[i] = events'[1][2]
               THEN m_attribute_names' = m_attribute_names
               ELSE m_attribute_names' = Append(m_attribute_names, events'[1][2])
          ELSE m_attribute_names' = m_attribute_names]_vars

\* the registry has grown twice, with other operations in between
C16_Witness ==
    /\ LastOp = "getAttributeNameIndex"
    /\ Returned = 1
    /\ Len(m_attribute_names) = 2
    /\ m_last_bind_geometry_mesh # NULL

\* what no setter may touch
setterFrame ==
    <<caches, driverState, shader_program, gl_layout_fault, m_attribute_names,
      m_debug_shader, fault>>

\* C17: setViewMatrix, setProjectionMatrix, setPass, setEditorWireframe and
\* setRenderDevice change their own field only, issue no driver call and
\* leave the program cache, the last-bound memos and the registry as they
\* are; the getter of the field then returns the value that was set.
C17_SettersArePure ==
    [][/\ LastOp' = "setViewMatrix"
          => (/\ Len(events') = 1
              /\ getCurrentViewMatrix(Cur)' = events'[1][2]
              /\ UNCHANGED <<setterFrame, m_projection_matrix, m_current_pass_hash,
                             m_is_editor_wireframe, m_render_device>>)
       /\ LastOp' = "setProjectionMatrix"
          => (/\ Len(events') = 1
              /\ getCurrentProjectionMatrix(Cur)' = events'[1][2]
              /\ UNCHANGED <<setterFrame, m_view_matrix, m_current_pass_hash,
                             m_is_editor_wireframe, m_render_device>>)
       /\ LastOp' = "setPass"
          => (/\ Len(events') = 1
              /\ getPass(Cur)' = events'[1][2]
              /\ UNCHANGED <<setterFrame, m_view_matrix, m_projection_matrix,
                             m_is_editor_wireframe, m_render_device>>)
       /\ LastOp' = "setEditorWireframe"
          => (/\ Len(events') = 1
              /\ isEditorWireframe(Cur)' = (events'[1][2] = 1)
              /\ UNCHANGED <<setterFrame, m_view_matrix, m_projection_matrix,
                             m_current_pass_hash, m_render_device>>)
       /\ LastOp' = "setRenderDevice"
          => (/\ Len(events') = 1
              /\ m_render_device' = events'[1][2]
              /\ UNCHANGED <<setterFrame, m_view_matrix, m_projection_matrix,
                             m_current_pass_hash, m_is_editor_wireframe>>)]_vars

\* a setter has run while a program is cached, a mesh is bound and the
\* registry holds names, after each other setter has changed its field
C17_Witness ==
    /\ LastOp \in {"setViewMatrix", "setProjectionMatrix", "setPass",
                   "setEditorWireframe", "setRenderDevice"}
    /\ m_last_program_id \in Programs
    /\ m_last_bind_geometry_mesh # NULL
    /\ m_attribute_names # <<>>
    /\ m_is_editor_wireframe
    /\ m_current_pass_hash # MAIN_HASH
    /\ m_render_device \in Devices

\* C18: getDebugShader() returns the debug shader that create() loaded; when
\* there is none, because create() has not run or because the load yielded
\* no shader, it fails its assertion and returns nothing.
C18_GetDebugShaderFailsFast ==
    [][LastOp' = "getDebugShader"
       => IF create_result >= 0 /\ m_debug_shader # NULL
          THEN /\ events' = <<(<<"getDebugShader">>), (<<"return", m_debug_shader>>)>>
               /\ fault' = "none"
          ELSE /\ events' = <<(<<"getDebugShader">>)>>
               /\ fault' = "assertion"]_vars

\* C19: create() returns true exactly when glewInit() succeeded and in both
\* cases has loaded the debug shader once and keeps what the load returned;
\* no other operation replaces it, and destroy() unloads that shader once.
C19_CreateLoadsOnceAndReports ==
    [][/\ LastOp' = "create"
          => (/\ CountCalls(events', "glewInit") = 1
              /\ CountCalls(events', "load") = 1
              /\ \A i \in 1..Len(events') :
                    /\ events'[i][1] = "glewInit" => Returned' = events'[i][2]
                    /\ events'[i][1] = "load" => m_debug_shader' = events'[i][2]
              /\ fault' = "none")
       /\ LastOp' # "create" => m_debug_shader' = m_debug_shader
       /\ (LastOp' = "destroy" /\ m_debug_shader \in Shaders)
          => (/\ events' = <<(<<"destroy">>), (<<"unload", m_debug_shader>>)>>
              /\ fault' = "none")]_vars

\* destroy() has unloaded the shader loaded by a create() that reported failure
C19_Witness ==
    /\ LastOp = "destroy"
    /\ create_result = 0
    /\ CountCalls(events, "unload") = 1

\* the sign of every component: the unit vector of an axis-aligned vector
Unit(v) ==
    [i \in 1..3 |-> IF v[i] > 0 THEN 1 ELSE IF v[i] < 0 THEN -1 ELSE 0]

\* C20: for eye = (0,0,0), center = (0,0,-1), up = (0,1,0) the look-at
\* matrix has an identity rotation block and zero translation; for every
\* axis-aligned view direction and up vector its rotation block holds right,
\* trueUp and -forward as columns and its translation is
\* (-right.eye, -trueUp.eye, forward.eye), where forward is the unit vector
\* of center - eye, right that of forward x up, and trueUp = right x forward.
C20_LookAtMatrix ==
    lookat.done =>
        LET eye == lookat.pos
            forward == Unit(VecSub(lookat.center, eye))
            right == Unit(crossProduct(forward, lookat.up))
            trueUp == crossProduct(right, forward)
            mtx == lookat.mtx
        IN /\ \A i \in 1..3 :
                 /\ mtx[i][1] = right[i]
                 /\ mtx[i][2] = trueUp[i]
                 /\ mtx[i][3] = 0 - forward[i]
                 /\ mtx[i][4] = 0
           /\ mtx[4] = <<0 - dotProduct(right, eye), 0 - dotProduct(trueUp, eye),
                         dotProduct(forward, eye), 1>>
           /\ (/\ eye = <<0, 0, 0>>
               /\ lookat.center = <<0, 0, -1>>
               /\ lookat.up = <<0, 1, 0>>) => mtx = IDENTITY

\* the matrix of a call with an eye off the origin, looking along another
\* axis than -z: its rotation block is not symmetric, its translation not 0
C20_Witness ==
    /\ lookat.done
    /\ lookat.mtx[1][3] # lookat.mtx[3][1]
    /\ lookat.mtx[4][1] # 0
    /\ lookat.mtx[4][3] # 0

\* the mesh whose index range an indexed draw covers
DrawnMeshes(draw) ==
    {m \in Meshes : /\ getIndicesOffset(m) = draw.indices_offset
                    /\ getIndexCount(m) = draw.vertex_count}

\* C21: every indexed draw issued by renderModel finds the mesh it draws
\* recorded as the last-bound mesh, the geometry whose buffers are bound at
\* the driver recorded as the last-bound geometry, and the vertex layout of
\* that mesh, and no other, enabled.
C21_DrawFindsItsMeshBound ==
    \A i \in 1..Len(draws) :
        LET draw == draws[i]
        IN /\ DrawnMeshes(draw) = {draw.m_last_bind_geometry_mesh}
           /\ draw.m_last_bind_geometry # NULL
           /\ draw.gl_array_buffer = draw.m_last_bind_geometry
           /\ draw.gl_element_buffer = draw.m_last_bind_geometry
           /\ \A m \in Meshes :
                 draw.gl_layouts[m] = IF m = draw.m_last_bind_geometry_mesh THEN 1 ELSE 0

\* renderModel drew a mesh without binding anything: the mesh had been bound
\* by an earlier operation
C21_Witness ==
    /\ LastOp = "renderModel"
    /\ Len(draws) = 1
    /\ CountCalls(events, "bindBuffers") = 0

\* C22: the last-bound geometry memo is NULL exactly when the last-bound
\* mesh memo is NULL, and every layout teardown, that of cleanup() included,
\* goes through a mesh that is not NULL.
C22_MemosNullTogether ==
    /\ (m_last_bind_geometry = NULL) <=> (m_last_bind_geometry_mesh = NULL)
    /\ \A i \in 1..Len(events) :
          events[i][1] = "VertexDef::end" => events[i][2] \in Meshes

\* the cleanup at the end of render() tore down the layout of the mesh that
\* the pipeline had left bound
C22_Witness ==
    /\ LastOp = "render"
    /\ m_last_bind_geometry = NULL
    /\ m_last_bind_geometry_mesh = NULL
    /\ \E i \in 1..(Len(events) - 1) :
          /\ events[i][1] = "cleanup"
          /\ events[i + 1][1] = "VertexDef::end"

====
